---- MODULE Spec2Model ----
(***************************************************************************)
(* Mass-spring cloth integrator of tests/test_cloth_pytorch.py and the     *)
(* node entry point of omni/warp/nodes/samples/OgnMeshDeform.py.           *)
(*                                                                         *)
(* Numbers.  A tensor element is a set of integers: {n} is the finite      *)
(* value n and {} is NaN, so that an operation on elements is the set of   *)
(* its results on their members and NaN propagates through it.  Finite     *)
(* values are exact, in units chosen so that every quantity of the runs    *)
(* below is whole: lengths in 4.9 cm, time in 0.1 s,                       *)
(* so that gravity (0, -9.8, 0) m/s^2 is (0, -2, 0).  Rounding of float32  *)
(* is not modelled; NaN is, with the IEEE rules the code relies on         *)
(* (NaN + a = NaN, NaN * 0 = NaN, 0 * (1/0) = NaN).                        *)
(*                                                                         *)
(* Geometry.  The cloths of Init hang on the y axis, the axis of gravity,  *)
(* so every vector of a run has at most one nonzero component and its      *)
(* Euclidean norm is an exact integer.                                     *)
(***************************************************************************)
EXTENDS Integers, Sequences, FiniteSets, TLC

VARIABLES
  cloth,        \* the cloth handed to TrIntegrator.__init__
  integrator,   \* the TrIntegrator: its tensors
  pc,           \* position of the simulate call in progress
  dt,           \* simulate's argument dt
  substeps,     \* simulate's argument substeps
  sim_dt,       \* simulate's local sim_dt
  iters,        \* iterations of simulate's loop completed in this call
  fs,           \* eval_springs' local fs.T, one row per spring
  pending,      \* rows of the scatter_add in progress not yet added
  fPre,         \* the force buffer when the eval_springs pass began
  result,       \* what the last simulate call returned
  calls         \* simulate calls completed

clothVars == <<cloth, integrator, pc, dt, substeps, sim_dt, iters, fs, pending, fPre, result, calls>>

\* three integrators built from the same cloth, driven by whole simulate calls
VARIABLES
  cdt,          \* the frame step dt of the comparison, 0 before it is chosen
  runSeq,       \* integrator given simulate(cdt, 1) twice
  runHalf,      \* integrator given simulate(cdt/2, 1) twice
  runOne,       \* integrator given simulate(cdt, 2) once
  seqCalls,     \* simulate calls completed on runSeq
  halfCalls,    \* simulate calls completed on runHalf
  oneCalls      \* simulate calls completed on runOne

composeVars == <<cdt, runSeq, runHalf, runOne, seqCalls, halfCalls, oneCalls>>

\* one OgnMeshDeform node and its database db
VARIABLES
  npc,          \* position of OgnMeshDeform.compute
  in_valid,     \* db.inputs.mesh.valid
  out_valid,    \* db.outputs.mesh.valid
  execOut,      \* db.outputs.execOut
  exc,          \* class of the exception being handled or propagated
  raisedAt,     \* step of this evaluation that raised, "none" if none did
  execWritten,  \* db.outputs.execOut was assigned in this evaluation
  copied,       \* db.outputs.mesh was assigned in this evaluation
  launches,     \* wp.launch calls of this evaluation
  dirtied,      \* mesh_set_dirty_attributes calls of this evaluation
  logged,       \* db.log_error calls of this evaluation
  evals         \* evaluations started

nodeVars == <<npc, in_valid, out_valid, execOut, exc, raisedAt, execWritten, copied,
              launches, dirtied, logged, evals>>

vars == <<clothVars, composeVars, nodeVars>>

\* ------------------------------------------------------------------ bounds
MaxCalls == 2

MaxSubsteps == 2

MaxEvals == 3

\* ----------------------------------------------------------------- numbers
F(n) == {n}

NaN == {}

Zero == F(0)

Finite(a) == a # NaN

\* the value of a finite element
Val(a) == CHOOSE n \in a : TRUE

Add(a, b) == {x + y : x \in a, y \in b}

Sub(a, b) == {x - y : x \in a, y \in b}

Mul(a, b) == {x * y : x \in a, y \in b}

Neg(a) == {0 - x : x \in a}

\* a > 0.0, false of NaN
Positive(a) == \E x \in a : x > 0

Abs(n) == IF n < 0 THEN 0 - n ELSE n

\* largest r with r*r <= n
ISqrt(n) == CHOOSE r \in 0..n : r * r <= n /\ (r + 1) * (r + 1) > n

\* ----------------------------------------------------------------- vectors
Dim == {1, 2, 3}

V3(a, b, c) == <<F(a), F(b), F(c)>>

ZeroVec == V3(0, 0, 0)

VAdd(a, b) == [k \in Dim |-> Add(a[k], b[k])]

VSub(a, b) == [k \in Dim |-> Sub(a[k], b[k])]

VNeg(a) == [k \in Dim |-> Neg(a[k])]

VScale(a, c) == [k \in Dim |-> Mul(a[k], c)]

VFinite(a) == \A k \in Dim : Finite(a[k])

\* torch.sum(a*b, axis=1) for one row
Dot(a, b) == Add(Add(Mul(a[1], b[1]), Mul(a[2], b[2])), Mul(a[3], b[3]))

\* torch.linalg.norm(xij, axis=1) for one row.  On a coordinate axis the norm
\* is the absolute value of the component; elsewhere it is the square root,
\* exact when the sum of squares is a perfect square.
Norm(a) ==
  {IF Cardinality({k \in Dim : <<x, y, z>>[k] # 0}) <= 1
   THEN Abs(x + y + z)
   ELSE ISqrt(x * x + y * y + z * z) : x \in a[1], y \in a[2], z \in a[3]}

\* dir = (xij.T * l_inv).T with l_inv = 1.0 / l, for one row.  l = 0 gives
\* l_inv = inf and, xij being the zero vector then, 0 * inf = NaN in every
\* component.  For l > 0 the quotient is exact on a coordinate axis.
Normalize_Raw(xij, l) == xij

Normalize(xij, l) == [k \in Dim |-> {x \div n : x \in xij[k], n \in l \ {0}}]

\* ------------------------------------------------------------------- cloth
\* self.gravity: (0.0, 0.0 - 9.8, 0.0) m/s^2 in units of 4.9 cm / (0.1 s)^2
Gravity == V3(0, -2, 0)

Particles(I) == 0..(I.num_particles - 1)

Springs(I) == 0..(I.num_springs - 1)

\* self.spring_indices.reshape((num_springs, 2)): row m is (flat[2m], flat[2m+1])
Reshape(flat, M) == [m \in 0..(M - 1) |-> <<flat[2 * m], flat[2 * m + 1]>>]

\* TrIntegrator.__init__: tensors copied from the cloth, forces zeroed
NewIntegrator(c) ==
  [num_particles |-> c.num_particles,
   num_springs |-> c.num_springs,
   positions |-> c.positions,
   velocities |-> c.velocities,
   inv_mass |-> c.inv_masses,
   spring_indices |-> c.spring_indices,
   spring_lengths |-> c.spring_lengths,
   spring_stiffness |-> c.spring_stiffness,
   spring_damping |-> c.spring_damping,
   forces |-> [p \in 0..(c.num_particles - 1) |-> ZeroVec],
   gravity |-> Gravity]

\* ------------------------------------------------------------ eval_springs
\* one row of fs.T: dir * (ke * c + kd * dcdt) for spring m
SpringForce(I, m) ==
  LET idx == Reshape(I.spring_indices, I.num_springs)
      i == idx[m][1]
      j == idx[m][2]
      xij == VSub(I.positions[i], I.positions[j])
      vij == VSub(I.velocities[i], I.velocities[j])
      l == Norm(xij)
      dir == Normalize(xij, l)
      c == Sub(l, I.spring_lengths[m])
      dcdt == Dot(dir, vij)
  IN VScale(dir, Add(Mul(I.spring_stiffness[m], c), Mul(I.spring_damping[m], dcdt)))

\* one element of scatter_add(out=f, src, index, dim=0): f[index] += src
ScatterAddOne_Overwrite(f, p, src) == [f EXCEPT ![p] = src]

ScatterAddOne(f, p, src) == [f EXCEPT ![p] = VAdd(f[p], src)]

\* scatter_add over rows 0..m-1 of src, taken in index order
RECURSIVE ScatterAdd(_, _, _, _)
ScatterAdd(f, index, src, m) ==
  IF m = 0 THEN f
  ELSE ScatterAddOne(ScatterAdd(f, index, src, m - 1), index[m - 1], src[m - 1])

\* the whole of eval_springs: the force buffer after both scatter_add calls
EvalSprings(I) ==
  LET idx == Reshape(I.spring_indices, I.num_springs)
      fsT == [m \in Springs(I) |-> SpringForce(I, m)]
      fi == ScatterAdd(I.forces, [m \in Springs(I) |-> idx[m][1]],
                       [m \in Springs(I) |-> VNeg(fsT[m])], I.num_springs)
      fj == ScatterAdd(fi, [m \in Springs(I) |-> idx[m][2]], fsT, I.num_springs)
  IN [I EXCEPT !.forces = fj]

\* ----------------------------------------------------- integrate_particles
\* s = w > 0.0 ; a_ext = g * s[:, None]
ExtAccel_Always(g, w) == g

ExtAccel(g, w) == VScale(g, IF Positive(w) THEN F(1) ELSE F(0))

\* v += ((f.T * w).T + a_ext) * dt
NewVelocity(v, f, g, w, h) == VAdd(v, VScale(VAdd(VScale(f, w), ExtAccel(g, w)), F(h)))

\* x += v * dt, with the velocity already updated
NewPosition(x, vnew, h) == VAdd(x, VScale(vnew, F(h)))

\* f *= 0.0
ClearForce(f) == VScale(f, F(0))

IntegrateParticles_ClearsMass(I, h) ==
  LET vnew == [p \in Particles(I) |->
                 NewVelocity(I.velocities[p], I.forces[p], I.gravity, I.inv_mass[p], h)]
  IN [I EXCEPT !.velocities = vnew,
               !.positions = [p \in Particles(I) |-> NewPosition(I.positions[p], vnew[p], h)],
               !.forces = [p \in Particles(I) |-> ClearForce(I.forces[p])],
               !.inv_mass = [p \in Particles(I) |-> Mul(I.inv_mass[p], F(0))]]

IntegrateParticles(I, h) ==
  LET vnew == [p \in Particles(I) |->
                 NewVelocity(I.velocities[p], I.forces[p], I.gravity, I.inv_mass[p], h)]
  IN [I EXCEPT !.velocities = vnew,
               !.positions = [p \in Particles(I) |-> NewPosition(I.positions[p], vnew[p], h)],
               !.forces = [p \in Particles(I) |-> ClearForce(I.forces[p])]]

\* ---------------------------------------------------------------- simulate
\* sim_dt = dt/substeps; the runs of the model take dt a multiple of substeps
SimDt_Whole(d, n) == d

SimDt(d, n) == d \div n

LoopContinues_OneShort(it, n) == it < n - 1

\* for s in range(substeps): another iteration after `it` completed ones
LoopContinues(it, n) == it < n

RECURSIVE SimulateLoop(_, _, _)
SimulateLoop(I, h, n) ==
  IF n = 0 THEN I
  ELSE IntegrateParticles(EvalSprings(SimulateLoop(I, h, n - 1)), h)

\* the integrator after simulate(dt, substeps)
Simulate(I, d, n) == SimulateLoop(I, SimDt(d, n), n)

\* ------------------------------------------------------------------ inputs
NumParticles == 3

\* a tuple of index pairs as the flat tensor self.cloth.spring_indices
FlatOf(t) == [k \in 0..(Len(t) - 1) |-> t[k + 1]]

\* spring topologies: one spring; a chain; two springs ending on particle 1
Topologies == {<<0, 1>>, <<0, 1, 1, 2>>, <<0, 1, 2, 1>>}

\* frame steps: 1, and one that every substeps count of a run divides or equals
Dts == {1, MaxSubsteps}

\* inverse masses: every particle free (1), or one particle pinned (0)
InvMasses ==
  {[p \in 0..(NumParticles - 1) |-> IF p = q THEN 0 ELSE 1] : q \in 0..NumParticles}

\* initial velocities along y: all particles at rest, or one moving at 1
InitVels ==
  {[p \in 0..(NumParticles - 1) |-> IF p = q THEN 1 ELSE 0] : q \in 0..NumParticles}

\* initial heights: particle p at 2p, or the same with particle 2 on particle 1
Heights ==
  {[p \in 0..(NumParticles - 1) |-> IF p = 2 /\ on THEN 2 ELSE 2 * p] : on \in BOOLEAN}

Rests == {1, 2, 3}

Stiffnesses == {1, 2}

Dampings == {0, 1}

\* a cloth hanging on the y axis
ClothOf(y, vy, w, topo, rest, ke, kd) ==
  [num_particles |-> NumParticles,
   num_springs |-> Len(topo) \div 2,
   positions |-> [p \in 0..(NumParticles - 1) |-> V3(0, y[p], 0)],
   velocities |-> [p \in 0..(NumParticles - 1) |-> V3(0, vy[p], 0)],
   inv_masses |-> [p \in 0..(NumParticles - 1) |-> F(w[p])],
   spring_indices |-> FlatOf(topo),
   spring_lengths |-> [m \in 0..(Len(topo) \div 2 - 1) |-> F(rest)],
   spring_stiffness |-> [m \in 0..(Len(topo) \div 2 - 1) |-> F(ke)],
   spring_damping |-> [m \in 0..(Len(topo) \div 2 - 1) |-> F(kd)]]

Cloths ==
  {ClothOf(y, vy, w, topo, rest, ke, kd) :
     y \in Heights, vy \in InitVels, w \in InvMasses,
     topo \in Topologies, rest \in Rests, ke \in Stiffnesses, kd \in Dampings}

\* ------------------------------------------------------- the cloth machine
ClothInit ==
  /\ cloth \in Cloths
  /\ integrator = NewIntegrator(cloth)
  /\ pc = "idle"
  /\ dt = 1
  /\ substeps = 1
  /\ sim_dt = 1
  /\ iters = 0
  /\ fs = [m \in 0..(cloth.num_springs - 1) |-> ZeroVec]
  /\ pending = {}
  /\ fPre = [p \in 0..(cloth.num_particles - 1) |-> ZeroVec]
  /\ result = cloth.positions
  /\ calls = 0

\* simulate(d, n) is called: sim_dt = dt/substeps
SimulateCall(d, n) ==
  /\ pc = "idle"
  /\ calls < MaxCalls
  /\ d % n = 0
  /\ dt' = d
  /\ substeps' = n
  /\ sim_dt' = SimDt(d, n)
  /\ iters' = 0
  /\ pc' = "loop"
  /\ UNCHANGED <<cloth, integrator, fs, pending, fPre, result, calls>>

\* for s in range(substeps): eval_springs computes fs from x and v
LoopEnter ==
  /\ pc = "loop"
  /\ LoopContinues(iters, substeps)
  /\ fs' = [m \in Springs(integrator) |-> SpringForce(integrator, m)]
  /\ fPre' = integrator.forces
  /\ pending' = Springs(integrator)
  /\ pc' = "scatter_i"
  /\ UNCHANGED <<cloth, integrator, dt, substeps, sim_dt, iters, result, calls>>

\* one row of scatter_add(out=f, src=-fs.T, index=i): rows in any order
ScatterI(m) ==
  /\ pc = "scatter_i"
  /\ m \in pending
  /\ integrator' = [integrator EXCEPT !.forces =
        ScatterAddOne(@, Reshape(integrator.spring_indices, integrator.num_springs)[m][1],
                      VNeg(fs[m]))]
  /\ IF pending = {m}
     THEN pc' = "scatter_j" /\ pending' = Springs(integrator)
     ELSE pc' = pc /\ pending' = pending \ {m}
  /\ UNCHANGED <<cloth, dt, substeps, sim_dt, iters, fs, fPre, result, calls>>

\* one row of scatter_add(out=f, src=fs.T, index=j): rows in any order
ScatterJ(m) ==
  /\ pc = "scatter_j"
  /\ m \in pending
  /\ integrator' = [integrator EXCEPT !.forces =
        ScatterAddOne(@, Reshape(integrator.spring_indices, integrator.num_springs)[m][2],
                      fs[m])]
  /\ IF pending = {m}
     THEN pc' = "integrate" /\ pending' = {}
     ELSE pc' = pc /\ pending' = pending \ {m}
  /\ UNCHANGED <<cloth, dt, substeps, sim_dt, iters, fs, fPre, result, calls>>

\* integrate_particles(positions, velocities, forces, gravity, inv_mass, sim_dt)
Integrate ==
  /\ pc = "integrate"
  /\ integrator' = IntegrateParticles(integrator, sim_dt)
  /\ iters' = iters + 1
  /\ pc' = "loop"
  /\ UNCHANGED <<cloth, dt, substeps, sim_dt, fs, pending, fPre, result, calls>>

\* the loop is exhausted: return self.positions.cpu().numpy()
SimulateReturn ==
  /\ pc = "loop"
  /\ ~LoopContinues(iters, substeps)
  /\ result' = integrator.positions
  /\ calls' = calls + 1
  /\ pc' = "idle"
  /\ UNCHANGED <<cloth, integrator, dt, substeps, sim_dt, iters, fs, pending, fPre>>

SimulateStep ==
  \/ LoopEnter
  \/ \E m \in pending : ScatterI(m)
  \/ \E m \in pending : ScatterJ(m)
  \/ Integrate
  \/ SimulateReturn

ClothNext ==
  \/ \E d \in Dts, n \in 1..MaxSubsteps : SimulateCall(d, n)
  \/ SimulateStep

\* ----------------------------------------------- whole calls, side by side
ComposeDts == {2, 4}

ComposeInit ==
  /\ cdt = 0
  /\ runSeq = NewIntegrator(cloth)
  /\ runHalf = NewIntegrator(cloth)
  /\ runOne = NewIntegrator(cloth)
  /\ seqCalls = 0
  /\ halfCalls = 0
  /\ oneCalls = 0

ComposeChoose(d) ==
  /\ cdt = 0
  /\ cdt' = d
  /\ UNCHANGED <<runSeq, runHalf, runOne, seqCalls, halfCalls, oneCalls>>

\* simulate(dt, substeps=1) on runSeq
SeqCall ==
  /\ cdt # 0
  /\ seqCalls < 2
  /\ runSeq' = Simulate(runSeq, cdt, 1)
  /\ seqCalls' = seqCalls + 1
  /\ UNCHANGED <<cdt, runHalf, runOne, halfCalls, oneCalls>>

\* simulate(dt/2, substeps=1) on runHalf
HalfCall ==
  /\ cdt # 0
  /\ halfCalls < 2
  /\ runHalf' = Simulate(runHalf, cdt \div 2, 1)
  /\ halfCalls' = halfCalls + 1
  /\ UNCHANGED <<cdt, runSeq, runOne, seqCalls, oneCalls>>

\* simulate(dt, substeps=2) on runOne
OneCall ==
  /\ cdt # 0
  /\ oneCalls < 1
  /\ runOne' = Simulate(runOne, cdt, 2)
  /\ oneCalls' = oneCalls + 1
  /\ UNCHANGED <<cdt, runSeq, runHalf, seqCalls, halfCalls>>

ComposeNext ==
  \/ \E d \in ComposeDts : ComposeChoose(d)
  \/ SeqCall
  \/ HalfCall
  \/ OneCall

\* ------------------------------------------------------ OgnMeshDeform node
ExcClasses == {"Exception", "BaseException"}

\* the statements of the try block, in order: the with statement's entry, the
\* inner compute's lines 46, 50, 53-54, 56-68, 71-74, the with statement's exit
TrySteps == {"scope_enter", "valid", "copy", "points", "launch", "dirty", "scope_exit"}

\* the statements of the inner compute(db)
InnerSteps == {"valid", "copy", "points", "launch", "dirty"}

NodeInit ==
  /\ npc = "idle"
  /\ in_valid = TRUE
  /\ out_valid = TRUE
  /\ execOut = "unset"
  /\ exc = "none"
  /\ raisedAt = "none"
  /\ execWritten = FALSE
  /\ copied = FALSE
  /\ launches = 0
  /\ dirtied = 0
  /\ logged = 0
  /\ evals = 0

\* the graph evaluates the node: OgnMeshDeform.compute(db) is entered
NodeCompute(iv, ov) ==
  /\ npc = "idle"
  /\ evals < MaxEvals
  /\ evals' = evals + 1
  /\ in_valid' = iv
  /\ out_valid' = ov
  /\ exc' = "none"
  /\ raisedAt' = "none"
  /\ execWritten' = FALSE
  /\ copied' = FALSE
  /\ launches' = 0
  /\ dirtied' = 0
  /\ logged' = 0
  /\ npc' = "device"
  /\ UNCHANGED execOut

\* device = wp.get_device("cuda:0")
GetDevice ==
  /\ npc = "device"
  /\ npc' = "scope_enter"
  /\ UNCHANGED <<in_valid, out_valid, execOut, exc, raisedAt, execWritten, copied,
                 launches, dirtied, logged, evals>>

\* wp.get_device raises: outside the try, the exception leaves compute
GetDeviceRaises(k) ==
  /\ npc = "device"
  /\ exc' = k
  /\ raisedAt' = "device"
  /\ npc' = "idle"
  /\ UNCHANGED <<in_valid, out_valid, execOut, execWritten, copied, launches, dirtied,
                 logged, evals>>

\* with wp.ScopedDevice(device): entered
ScopeEnter ==
  /\ npc = "scope_enter"
  /\ npc' = "valid"
  /\ UNCHANGED <<in_valid, out_valid, execOut, exc, raisedAt, execWritten, copied,
                 launches, dirtied, logged, evals>>

CheckValid_ReturnsFromNode ==
  /\ npc = "valid"
  /\ npc' = IF ~in_valid \/ ~out_valid THEN "idle" ELSE "copy"
  /\ UNCHANGED <<in_valid, out_valid, execOut, exc, raisedAt, execWritten, copied,
                 launches, dirtied, logged, evals>>

\* if not db.inputs.mesh.valid or not db.outputs.mesh.valid: return
CheckValid ==
  /\ npc = "valid"
  /\ npc' = IF ~in_valid \/ ~out_valid THEN "scope_exit" ELSE "copy"
  /\ UNCHANGED <<in_valid, out_valid, execOut, exc, raisedAt, execWritten, copied,
                 launches, dirtied, logged, evals>>

\* db.outputs.mesh = db.inputs.mesh
CopyMesh ==
  /\ npc = "copy"
  /\ copied' = TRUE
  /\ npc' = "points"
  /\ UNCHANGED <<in_valid, out_valid, execOut, exc, raisedAt, execWritten, launches,
                 dirtied, logged, evals>>

\* points = mesh_get_points(db.inputs.mesh); out_points = mesh_get_points(db.outputs.mesh)
GetPoints ==
  /\ npc = "points"
  /\ npc' = "launch"
  /\ UNCHANGED <<in_valid, out_valid, execOut, exc, raisedAt, execWritten, copied,
                 launches, dirtied, logged, evals>>

\* with NodeTimer(...): wp.launch(kernel=deform_mesh_kernel, ...)
Launch ==
  /\ npc = "launch"
  /\ launches' = launches + 1
  /\ npc' = "dirty"
  /\ UNCHANGED <<in_valid, out_valid, execOut, exc, raisedAt, execWritten, copied,
                 dirtied, logged, evals>>

\* omni.warp.mesh_set_dirty_attributes(db.outputs.mesh, POINTS); compute returns
SetDirty ==
  /\ npc = "dirty"
  /\ dirtied' = dirtied + 1
  /\ npc' = "scope_exit"
  /\ UNCHANGED <<in_valid, out_valid, execOut, exc, raisedAt, execWritten, copied,
                 launches, logged, evals>>

\* the with statement is left normally
ScopeExit ==
  /\ npc = "scope_exit"
  /\ npc' = "exec"
  /\ UNCHANGED <<in_valid, out_valid, execOut, exc, raisedAt, execWritten, copied,
                 launches, dirtied, logged, evals>>

\* a statement of the try block raises: `except Exception` catches an
\* Exception; any other BaseException leaves compute
TryStepRaises(k) ==
  /\ npc \in TrySteps
  /\ exc' = k
  /\ raisedAt' = npc
  /\ npc' = IF k = "Exception" THEN "except" ELSE "idle"
  /\ UNCHANGED <<in_valid, out_valid, execOut, execWritten, copied, launches, dirtied,
                 logged, evals>>

\* db.log_error(traceback.format_exc()); return
LogError ==
  /\ npc = "except"
  /\ logged' = logged + 1
  /\ npc' = "idle"
  /\ UNCHANGED <<in_valid, out_valid, execOut, exc, raisedAt, execWritten, copied,
                 launches, dirtied, evals>>

\* db.outputs.execOut = og.ExecutionAttributeState.ENABLED
SetExecOut ==
  /\ npc = "exec"
  /\ execOut' = "ENABLED"
  /\ execWritten' = TRUE
  /\ npc' = "idle"
  /\ UNCHANGED <<in_valid, out_valid, exc, raisedAt, copied, launches, dirtied, logged,
                 evals>>

NodeNext ==
  \/ \E iv \in BOOLEAN, ov \in BOOLEAN : NodeCompute(iv, ov)
  \/ GetDevice
  \/ \E k \in ExcClasses : GetDeviceRaises(k)
  \/ ScopeEnter
  \/ CheckValid
  \/ CopyMesh
  \/ GetPoints
  \/ Launch
  \/ SetDirty
  \/ ScopeExit
  \/ \E k \in ExcClasses : TryStepRaises(k)
  \/ LogError
  \/ SetExecOut

\* ---------------------------------------------------------- specifications
Init == ClothInit /\ ComposeInit /\ NodeInit

\* simulate calls on one integrator, scatter_add rows in any order
Next == ClothNext /\ UNCHANGED <<composeVars, nodeVars>>

Spec == Init /\ [][Next]_vars

\* the same on the cloths that start at rest with undamped unit-stiffness
\* springs, the loop of a simulate call in progress always continuing
FairCloths ==
  {c \in Cloths : /\ \A p \in 0..(c.num_particles - 1) : c.velocities[p] = ZeroVec
                  /\ \A m \in 0..(c.num_springs - 1) :
                       c.spring_stiffness[m] = F(1) /\ c.spring_damping[m] = Zero}

InitFair == Init /\ cloth \in FairCloths

FairSpec ==
  InitFair /\ [][Next]_vars /\ WF_vars(SimulateStep /\ UNCHANGED <<composeVars, nodeVars>>)

\* whole simulate calls on three integrators built from one cloth
NextCompose == ComposeNext /\ UNCHANGED <<clothVars, nodeVars>>

SpecCompose == Init /\ [][NextCompose]_vars

\* evaluations of the node, on a fixed cloth
NodeCloth ==
  ClothOf([p \in 0..(NumParticles - 1) |-> 2 * p], [p \in 0..(NumParticles - 1) |-> 0],
          [p \in 0..(NumParticles - 1) |-> 1], <<0, 1>>, 2, 1, 0)

InitNode == Init /\ cloth = NodeCloth

NextNode == NodeNext /\ UNCHANGED <<clothVars, composeVars>>

SpecNode == InitNode /\ [][NextNode]_vars

\* ---------------------------------------------------------- claim helpers
Idx == Reshape(integrator.spring_indices, integrator.num_springs)

AllSprings == Springs(integrator)

AllParticles == Particles(integrator)

Cross(a, b) ==
  <<Sub(Mul(a[2], b[3]), Mul(a[3], b[2])),
    Sub(Mul(a[3], b[1]), Mul(a[1], b[3])),
    Sub(Mul(a[1], b[2]), Mul(a[2], b[1]))>>

\* sum over springs 0..n-1 of what the rows in doneI (as endpoint i, -fs) and
\* in doneJ (as endpoint j, +fs) contribute to particle p
RECURSIVE AppliedSum(_, _, _, _)
AppliedSum(p, n, doneI, doneJ) ==
  IF n = 0 THEN ZeroVec
  ELSE VAdd(VAdd(AppliedSum(p, n - 1, doneI, doneJ),
                 IF (n - 1) \in doneI /\ Idx[n - 1][1] = p THEN VNeg(fs[n - 1]) ELSE ZeroVec),
            IF (n - 1) \in doneJ /\ Idx[n - 1][2] = p THEN fs[n - 1] ELSE ZeroVec)

\* the force buffer of the pass in progress once doneI and doneJ are applied
AppliedForces(doneI, doneJ) ==
  [p \in AllParticles |-> VAdd(fPre[p], AppliedSum(p, integrator.num_springs, doneI, doneJ))]

AllFinite ==
  \A p \in AllParticles :
    VFinite(integrator.forces[p]) /\ VFinite(integrator.velocities[p])
      /\ VFinite(integrator.positions[p])

Pinned(p) == integrator.inv_mass[p] = F(0)

\* ------------------------------------------------------------------ claims

\* C1: a particle whose inverse mass is 0 has, after every sub-step of every
\* simulate call, the position and the velocity it had before the first
\* sub-step, whatever its initial velocity, the forces and gravity.
C1_PinnedNeverMoves ==
  \A p \in AllParticles :
    Pinned(p) => /\ integrator.positions[p] = cloth.positions[p]
                 /\ integrator.velocities[p] = cloth.velocities[p]

\* C2: right after integrate_particles returns, and so at the start of every
\* eval_springs pass of every simulate call, every force entry is zero.
C2_ForceZeroAfterIntegrate ==
  pc \in {"loop", "idle"} => \A p \in AllParticles : integrator.forces[p] = ZeroVec

\* C3 as stated: simulate(dt, 1) twice leaves the positions and velocities
\* that one simulate(dt, 2) leaves.
C3_TwoFullStepsEqualOneCall ==
  (seqCalls = 2 /\ oneCalls = 1) =>
    /\ runSeq.positions = runOne.positions
    /\ runSeq.velocities = runOne.velocities

\* C3 amended: simulate(dt/2, 1) twice leaves the positions and velocities
\* (and forces) that one simulate(dt, 2), whose sub-step is dt/2, leaves.
C3_TwoHalfStepsEqualOneCall ==
  (halfCalls = 2 /\ oneCalls = 1) =>
    /\ runHalf.positions = runOne.positions
    /\ runHalf.velocities = runOne.velocities
    /\ runHalf.forces = runOne.forces

C3_Witness ==
  /\ halfCalls = 2
  /\ oneCalls = 1
  /\ \E p \in Particles(runOne) :
       /\ VFinite(runOne.positions[p])
       /\ runOne.positions[p] # cloth.positions[p]
       /\ runOne.positions[p] # runSeq.positions[p]
  /\ seqCalls = 2

\* C4: at every point of an eval_springs pass the force buffer is its value
\* before the pass plus the contributions applied so far (-fs as endpoint i,
\* +fs as endpoint j), in whatever order the rows were applied; after the
\* pass it is that value plus every spring's contributions.
C4_ScatterSumsEveryContribution ==
  /\ pc = "scatter_i" => integrator.forces = AppliedForces(AllSprings \ pending, {})
  /\ pc = "scatter_j" => integrator.forces = AppliedForces(AllSprings, AllSprings \ pending)
  /\ pc = "integrate" => integrator.forces = AppliedForces(AllSprings, AllSprings)

\* two springs end on the same particle, both with a nonzero finite force
C4_Witness ==
  /\ pc = "integrate"
  /\ integrator.num_springs = 2
  /\ Idx[0][2] = Idx[1][2]
  /\ \A m \in AllSprings : VFinite(fs[m]) /\ fs[m] # ZeroVec
  /\ integrator.forces[Idx[0][2]] # fs[0]
  /\ integrator.forces[Idx[0][2]] # fs[1]

\* C5: a spring of current length 0 is clamped, skipped or reported: no row
\* of fs comes from a division by l = 0, and no NaN is written into the
\* force buffer, the velocities or the positions.
C5_DegenerateSpringHandled ==
  /\ pc \in {"scatter_i", "scatter_j"} => \A m \in AllSprings : VFinite(fs[m])
  /\ AllFinite

\* C6: one spring (i, j), zero damping, zero velocities of i and j, a zero
\* force buffer before the pass, distinct endpoints at distance rest + D:
\* after the pass the forces on i and j sum to zero, both have magnitude
\* ke * |D|, both are parallel to x_i - x_j; for D > 0 each points toward the
\* other particle, for D = 0 both are zero.
C6_Pre ==
  /\ pc = "integrate"
  /\ integrator.num_springs = 1
  /\ integrator.spring_damping[0] = Zero
  /\ integrator.velocities[Idx[0][1]] = ZeroVec
  /\ integrator.velocities[Idx[0][2]] = ZeroVec
  /\ \A p \in AllParticles : fPre[p] = ZeroVec
  /\ VFinite(integrator.positions[Idx[0][1]])
  /\ VFinite(integrator.positions[Idx[0][2]])
  /\ integrator.positions[Idx[0][1]] # integrator.positions[Idx[0][2]]

C6_SingleSpringForce ==
  C6_Pre =>
    LET i == Idx[0][1]
        j == Idx[0][2]
        xij == VSub(integrator.positions[i], integrator.positions[j])
        D == Val(Norm(xij)) - Val(integrator.spring_lengths[0])
        ke == Val(integrator.spring_stiffness[0])
        fi == integrator.forces[i]
        fj == integrator.forces[j]
    IN /\ VAdd(fi, fj) = ZeroVec
       /\ Norm(fi) = F(ke * Abs(D))
       /\ Norm(fj) = F(ke * Abs(D))
       /\ Cross(fi, xij) = ZeroVec
       /\ Cross(fj, xij) = ZeroVec
       /\ D > 0 => Positive(Dot(fi, VNeg(xij))) /\ Positive(Dot(fj, xij))
       /\ D = 0 => fi = ZeroVec /\ fj = ZeroVec

\* a stretched single spring with a nonzero force on both ends
C6_Witness ==
  /\ C6_Pre
  /\ Val(Norm(VSub(integrator.positions[Idx[0][1]], integrator.positions[Idx[0][2]])))
       > Val(integrator.spring_lengths[0])
  /\ integrator.forces[Idx[0][1]] # ZeroVec

\* C7: integrate_particles gives every particle v_new = v + (f*w + a_ext)*dt
\* and x_new = x + v_new*dt, a_ext being gravity when w > 0 and zero when
\* w = 0; a free particle with zero force and velocity moves by g*dt*dt.
C7_SemiImplicitEuler ==
  [][pc = "integrate" =>
       \A p \in AllParticles :
         LET w == integrator.inv_mass[p]
             a_ext == IF Positive(w) THEN integrator.gravity ELSE ZeroVec
             h == F(sim_dt)
             v_new == VAdd(integrator.velocities[p],
                           VScale(VAdd(VScale(integrator.forces[p], w), a_ext), h))
         IN /\ integrator'.velocities[p] = v_new
            /\ integrator'.positions[p] = VAdd(integrator.positions[p], VScale(v_new, h))
            /\ (Positive(w) /\ integrator.forces[p] = ZeroVec
                  /\ integrator.velocities[p] = ZeroVec) =>
                 integrator'.positions[p] =
                   VAdd(integrator.positions[p], VScale(VScale(integrator.gravity, h), h))]_vars

\* after the first sub-step a free particle that started at rest with no
\* force on it has fallen by g*dt*dt, and a pinned one kept its velocity
C7_Witness ==
  /\ pc = "loop"
  /\ calls = 0
  /\ iters = 1
  /\ sim_dt = 2
  /\ \E p \in AllParticles :
       /\ Positive(integrator.inv_mass[p])
       /\ cloth.velocities[p] = ZeroVec
       /\ integrator.velocities[p] = VScale(integrator.gravity, F(sim_dt))
       /\ integrator.positions[p] =
            VAdd(cloth.positions[p], VScale(integrator.gravity, F(sim_dt * sim_dt)))
  /\ \E p \in AllParticles : Pinned(p) /\ integrator.velocities[p] = cloth.velocities[p]

\* C8: a simulate(dt, substeps) call with substeps >= 1 ends, and only after
\* exactly `substeps` iterations; integrate_particles runs only once every
\* row of both scatter_add calls is in the force buffer, with the step
\* dt/substeps; the call returns the positions left by the last integration.
C8_FixedCountLoop ==
  /\ [](iters <= substeps /\ sim_dt * substeps = dt)
  /\ [](pc = "integrate" =>
          /\ pending = {}
          /\ iters < substeps
          /\ integrator.forces = AppliedForces(AllSprings, AllSprings))
  /\ [][pc = "integrate" =>
          /\ iters' = iters + 1
          /\ \A p \in AllParticles :
               integrator'.positions[p] =
                 VAdd(integrator.positions[p],
                      VScale(integrator'.velocities[p], F(dt \div substeps)))]_vars
  /\ [][(pc # "idle" /\ pc' = "idle") =>
          /\ iters = substeps
          /\ integrator' = integrator
          /\ result' = integrator.positions]_vars
  /\ (pc # "idle") ~> (pc = "idle")

\* a call with two sub-steps has returned positions that moved
C8_Witness ==
  /\ pc = "idle"
  /\ calls >= 1
  /\ substeps = 2
  /\ iters = 2
  /\ result = integrator.positions
  /\ result # cloth.positions

\* C9: the steps of eval_springs leave positions, velocities and all spring
\* data as they were; integrate_particles leaves the inverse masses, gravity
\* and all spring data as they were.
C9_SpringDataUnchanged ==
  /\ integrator'.spring_indices = integrator.spring_indices
  /\ integrator'.spring_lengths = integrator.spring_lengths
  /\ integrator'.spring_stiffness = integrator.spring_stiffness
  /\ integrator'.spring_damping = integrator.spring_damping

C9_FrameEffects ==
  [][/\ (pc \in {"scatter_i", "scatter_j"} \/ (pc = "loop" /\ pc' = "scatter_i")) =>
          /\ integrator'.positions = integrator.positions
          /\ integrator'.velocities = integrator.velocities
          /\ C9_SpringDataUnchanged
     /\ pc = "integrate" =>
          /\ integrator'.inv_mass = integrator.inv_mass
          /\ integrator'.gravity = integrator.gravity
          /\ C9_SpringDataUnchanged]_vars

\* an integration has run on nonzero forces and the masses are the cloth's
C9_Witness ==
  /\ pc = "loop"
  /\ iters = 1
  /\ integrator.inv_mass = cloth.inv_masses
  /\ integrator.velocities # cloth.velocities
  /\ \E p \in AllParticles : Positive(integrator.inv_mass[p])

\* C10 as stated: at the end of an evaluation execOut was set to ENABLED
\* exactly when no statement of the inner compute raised.
C10_ExecOutIffInnerComputeOk ==
  (npc = "idle" /\ evals > 0) => (execWritten <=> raisedAt \notin InnerSteps)

\* C10 amended: at the end of an evaluation execOut was set (to ENABLED)
\* exactly when no statement of OgnMeshDeform.compute raised; an Exception
\* raised in the try block was passed to db.log_error once and execOut not
\* set; an exception from wp.get_device, or one that is not an Exception,
\* left compute unlogged with execOut not set; with an invalid input or
\* output mesh nothing was copied, launched or marked dirty, and execOut was
\* set unless a statement raised.
C10_ExecOutIffNothingRaised ==
  (npc = "idle" /\ evals > 0) =>
    /\ execWritten <=> raisedAt = "none"
    /\ execWritten => execOut = "ENABLED"
    /\ (raisedAt \in TrySteps /\ exc = "Exception") => logged = 1
    /\ (raisedAt = "device" \/ exc = "BaseException") => logged = 0
    /\ raisedAt = "none" => logged = 0
    /\ (~in_valid \/ ~out_valid) => (~copied /\ launches = 0 /\ dirtied = 0)
    /\ (in_valid /\ out_valid /\ raisedAt = "none") =>
         (copied /\ launches = 1 /\ dirtied = 1)

\* an evaluation with an invalid mesh ended with execOut set
C10_Witness ==
  /\ npc = "idle"
  /\ evals > 0
  /\ ~in_valid \/ ~out_valid
  /\ execWritten
  /\ execOut = "ENABLED"
  /\ launches = 0

====
